---- MODULE Spec2Model ----
(***************************************************************************)
(* Model of fedoicmsg/signing_service.py: the signing backends             *)
(* (InternalSigningService, WebSigningServiceClient) and the Signer that   *)
(* gathers stored metadata statements, merges them into a request and has  *)
(* the backend sign the result.                                            *)
(*                                                                         *)
(* Documents (req, Message, dict) are functions from claim names to        *)
(* values.  Stored values and claim values are strings, written as tuples  *)
(* of characters so that str.startswith is computed and not assumed.       *)
(***************************************************************************)
EXTENDS Integers, Sequences, FiniteSets, TLC

VARIABLES
    ms_dir,               \* the ms_dir argument the Signer was constructed from
    constructed,          \* Signer.__init__ returned (did not raise)
    metadata_statements,  \* Signer.metadata_statements: context -> store
    def_context,          \* Signer.def_context
    add_ons,              \* SigningService.add_ons of the Signer's backend
    req,                  \* the caller's request document
    last,                 \* the last Signer / local backend call and its outcome
    sign_calls,           \* signing_service.create calls since the request was made
    iss,                  \* WebSigningServiceClient.iss
    wlast,                \* the last remote operation and its outcome
    verify_calls          \* number of verify_compact calls so far

vars == <<ms_dir, constructed, metadata_statements, def_context, add_ons, req, last,
          sign_calls, iss, wlast, verify_calls>>

signerVars == <<ms_dir, constructed, metadata_statements, def_context, add_ons, req,
                last, sign_calls>>
webVars == <<iss, wlast, verify_calls>>

\* what Signer.__init__ sets
signerConf == <<ms_dir, constructed, metadata_statements, def_context, add_ons>>

----------------------------------------------------------------------------
(* Bounds *)

\* longest fos list a caller passes
MaxFos == 3
\* the verification counter stops the model at this many calls
MaxVerifyCalls == 2

----------------------------------------------------------------------------
(* dict / Message helpers *)

EmptyDict == [x \in {} |-> <<>>]

Put(d, k, v) == [x \in (DOMAIN d) \cup {k} |-> IF x = k THEN v ELSE d[x]]

Del(d, k) == [x \in (DOMAIN d) \ {k} |-> d[x]]

\* dict.update(other): every key of other is written, overriding d
UpdateOverride(d, other) ==
    [x \in (DOMAIN d) \cup (DOMAIN other) |->
        IF x \in DOMAIN other THEN other[x] ELSE d[x]]

\* str.startswith
StartsWith(val, prefix) ==
    /\ Len(val) >= Len(prefix)
    /\ SubSeq(val, 1, Len(prefix)) = prefix

HTTP == <<"h", "t", "t", "p">>

----------------------------------------------------------------------------
(* Values the model draws from *)

URI_A == <<"h", "t", "t", "p", ":", "/", "/", "x", "/", "A">>
URI_B == <<"h", "t", "t", "p", "s", ":", "/", "/", "x", "/", "B">>
JWS_A == <<"e", "y", "J", ".", "A">>
JWS_B == <<"e", "y", "J", ".", "B">>
JWS_X == <<"e", "y", "J", ".", "X">>

URIs == {URI_A, URI_B}
InlineStatements == {JWS_A, JWS_B, JWS_X}

FOs == {"A", "B", "C"}

\* fedoicmsg.CONTEXTS
CONTEXTS == {"registration", "discovery", "response"}

\* fedoicmsg.MIN_SET
MIN_SET == [c \in CONTEXTS |-> EmptyDict]

\* the literal the Signer compares its stores with
ROOT_LITERAL == [c \in {"register", "discovery", "response"} |-> EmptyDict]

Store1 == [f \in {"A", "B"} |-> IF f = "A" THEN URI_A ELSE JWS_B]
Store2 == [f \in {"B", "C"} |-> IF f = "B" THEN URI_B ELSE JWS_A]

\* the stores of a non-root entity, and the empty stores of a root entity
Layout(k, c) ==
    IF k = 0 THEN EmptyDict
    ELSE CASE c = "registration" -> Store2
           [] c = "discovery" -> Store1
           [] OTHER -> EmptyDict

\* ms_dir: None, a dict (context -> store), or the path of a directory
\* (its listing in dict: item -> store for a sub-directory; the names in
\* files are the items that are no directories)
NoneDir == [none |-> TRUE, dict |-> EmptyDict, files |-> {}]
DictDir(d) == [none |-> FALSE, dict |-> d, files |-> {}]
PathDir(d, files) == [none |-> FALSE, dict |-> d, files |-> files]

MsDirs ==
    {NoneDir}
    \cup {DictDir([c \in S |-> Layout(1, c)]) : S \in SUBSET CONTEXTS}
    \cup {DictDir([c \in S |-> Layout(0, c)]) :
             S \in {{"discovery"}, {"registration", "discovery"}}}
    \cup {DictDir([c \in {"register"} |-> EmptyDict])}
    \cup {PathDir([c \in {"discovery"} |-> Store1], {"response"}),
          PathDir([c \in {"discovery"} |-> Store1], {"README"})}

SignerIss == "https://signer.example"

AddOnChoices ==
    {EmptyDict,
     [k \in {"federation_usage", "signing_keys"} |->
        IF k = "federation_usage" THEN "discovery" ELSE "jwks"]}

Doc0 == [k \in {"redirect_uris"} |-> "https://rp/cb"]

InputDocs ==
    {Doc0,
     Put(Doc0, "federation_usage", "registration"),
     Put(Doc0, "metadata_statements", Put(EmptyDict, "B", JWS_B)),
     Put(Doc0, "metadata_statement_uris", Put(EmptyDict, "C", URI_B))}

\* the fos argument: None, or a list of FO ids
NoFos == [none |-> TRUE, list |-> <<>>]
FosList(l) == [none |-> FALSE, list |-> l]

NoDupSeqs(S, n) ==
    UNION {{s \in [1..m -> S] : \A i, j \in 1..m : i # j => s[i] # s[j]} : m \in 0..n}

FosArgs == {NoFos} \cup {FosList(l) : l \in NoDupSeqs(FOs, MaxFos)}

ContextArgs == {""} \cup CONTEXTS

DefContexts == {"", "registration"}

\* list(d.keys()): the keys of d in the order the store yields them
KeyOrders(d) == {s \in [1..Cardinality(DOMAIN d) -> DOMAIN d] :
                    \A i, j \in DOMAIN s : i # j => s[i] # s[j]}

----------------------------------------------------------------------------
(* Signer.__init__ *)

\* the stores a Signer gets from ms_dir, or the ValueError of a key that is
\* not a context
BadKeys_Unchecked(dir) == {}

\* key not in CONTEXTS / item not in CONTEXTS, for every key of the dict and
\* every item of the directory
BadKeys(dir) ==
    IF dir.none THEN {} ELSE ((DOMAIN dir.dict) \cup dir.files) \ CONTEXTS

\* a store for every key of the dict, or for every sub-directory
Signer_init(dir) ==
    IF dir.none
    THEN [err |-> "", metadata_statements |-> MIN_SET]
    ELSE IF BadKeys(dir) # {}
         THEN [err |-> "ValueError", metadata_statements |-> EmptyDict]
         ELSE [err |-> "", metadata_statements |-> dir.dict]

----------------------------------------------------------------------------
(* InternalSigningService.create *)

\* JWT.pack: the token, written as what verifying it recovers
Pack(issuer, payload) == [iss |-> issuer, payload |-> payload]

\* _metadata = copy.deepcopy(req); _metadata.update(self.add_ons)
Metadata(r, addons) ==
    IF addons # EmptyDict THEN UpdateOverride(r, addons) ELSE r

InternalSigningService_create(r, addons) ==
    [sms |-> Pack(SignerIss, Metadata(r, addons))]

----------------------------------------------------------------------------
(* outcomes of a Signer call *)

NoneRes == [kind |-> "None"]
Raised == [kind |-> "raised"]
SmsRes(t) == [kind |-> "sms", sms |-> t]
DictRes(d) == [kind |-> "dict", items |-> d]

Outcome(res, err, r, calls) == [res |-> res, err |-> err, req |-> r, calls |-> calls]

\* gather takes no document: its result, its error, the backend calls it made
GatherOutcome(res, err, calls) == [res |-> res, err |-> err, calls |-> calls]

\* Python truth value of a result: None and the empty dict are false, a
\* token (a non-empty string) is true
Truthy(res) ==
    CASE res.kind = "None" -> FALSE
      [] res.kind = "dict" -> DOMAIN res.items # {}
      [] OTHER -> TRUE

----------------------------------------------------------------------------
(* Signer.create_signed_metadata_statement *)

\* if not context: context = self.def_context
ResolveContext(context, dctx) == IF context = "" THEN dctx ELSE context

\* cms == {}: a store compares equal to the empty dict when it has no entry
StoreIsEmpty(cms) == cms = EmptyDict

Attr_https(val) ==
    IF StartsWith(val, <<"h", "t", "t", "p", "s">>)
    THEN "metadata_statement_uris" ELSE "metadata_statements"

\* val.startswith('http') chooses the reserved claim
Attr(val) ==
    IF StartsWith(val, HTTP) THEN "metadata_statement_uris" ELSE "metadata_statements"

\* single mode, one FO: req[attr][f] = val, or req[attr] = {f: val} when the
\* claim is missing
MergeOne(r, f, val) ==
    IF Attr(val) \in DOMAIN r
    THEN Put(r, Attr(val), Put(r[Attr(val)], f, val))
    ELSE Put(r, Attr(val), Put(EmptyDict, f, val))

\* single mode: the loop over fos
RECURSIVE SingleMerge(_, _, _)
SingleMerge(r, cms, fos) ==
    IF fos = <<>> THEN r
    ELSE IF Head(fos) \notin DOMAIN cms
         THEN SingleMerge(r, cms, Tail(fos))
         ELSE SingleMerge(MergeOne(r, Head(fos), cms[Head(fos)]), cms, Tail(fos))

\* fan-out, one FO, before the backend call: req[attr] = {f: val}
FanOutSet(r, f, val) == Put(r, Attr(val), Put(EmptyDict, f, val))

FanOutDel_Keep(r, f, val) == r

\* fan-out, one FO, after the backend call: del req[attr]
FanOutDel(r, f, val) == Del(r, Attr(val))

\* the signing backend is called with document r as call number n of this
\* operation; call number failAt raises
BackendRaises(n, failAt) == n = failAt

Sign(r, addons) == InternalSigningService_create(r, addons).sms

\* fan-out: the loop over fos
RECURSIVE FanOut(_, _, _, _, _, _, _)
FanOut(r, cms, fos, sms, calls, addons, failAt) ==
    IF fos = <<>> THEN Outcome(DictRes(sms), "", r, calls)
    ELSE IF Head(fos) \notin DOMAIN cms
         THEN FanOut(r, cms, Tail(fos), sms, calls, addons, failAt)
         ELSE LET f == Head(fos)
                  val == cms[f]
                  r1 == FanOutSet(r, f, val)
                  calls1 == Append(calls, r1)
              IN  IF BackendRaises(Len(calls1), failAt)
                  THEN Outcome(Raised, "BackendError", r1, calls1)
                  ELSE FanOut(FanOutDel(r1, f, val), cms, Tail(fos),
                              Put(sms, f, Sign(r1, addons)), calls1, addons, failAt)

\* fan-out: the caller's document at the start of every iteration of the
\* loop over fos, n backend calls made so far
RECURSIVE FanOutStarts(_, _, _, _, _)
FanOutStarts(r, cms, fos, n, failAt) ==
    IF fos = <<>> THEN <<>>
    ELSE IF Head(fos) \notin DOMAIN cms
         THEN <<r>> \o FanOutStarts(r, cms, Tail(fos), n, failAt)
         ELSE LET f == Head(fos)
                  val == cms[f]
              IN  IF BackendRaises(n + 1, failAt)
                  THEN <<r>>
                  ELSE <<r>> \o FanOutStarts(FanOutDel(FanOutSet(r, f, val), f, val),
                                             cms, Tail(fos), n + 1, failAt)

Single_OnCopy(r, cms, fos, addons, failAt) ==
    LET merged == SingleMerge(r, cms, fos)
    IN  IF BackendRaises(1, failAt)
        THEN Outcome(Raised, "BackendError", r, <<merged>>)
        ELSE Outcome(SmsRes(Sign(merged, addons)), "", r, <<merged>>)

\* single mode: merge every FO, then one backend call
Single(r, cms, fos, addons, failAt) ==
    LET merged == SingleMerge(r, cms, fos)
    IN  IF BackendRaises(1, failAt)
        THEN Outcome(Raised, "BackendError", merged, <<merged>>)
        ELSE Outcome(SmsRes(Sign(merged, addons)), "", merged, <<merged>>)

SignAsSelf_Unwrapped(r, addons, failAt) ==
    IF BackendRaises(1, failAt)
    THEN Outcome(Raised, "BackendError", r, <<r>>)
    ELSE Outcome(SmsRes(Sign(r, addons)), "", r, <<r>>)

\* No superior so an FO then: sign the request as it is
SignAsSelf(r, addons, failAt) ==
    IF BackendRaises(1, failAt)
    THEN Outcome(Raised, "BackendError", r, <<r>>)
    ELSE Outcome(DictRes(Put(EmptyDict, SignerIss, Sign(r, addons))), "", r, <<r>>)

NoMatch_IgnoresFos(fos, sms) == ~Truthy(sms)

\* if fos and not _sms: raise KeyError('No metadata statements matched')
NoMatch(fos, sms) == fos # <<>> /\ ~Truthy(sms)

Aggregate(r, cms, fos, single, addons, failAt) ==
    LET out == IF single
               THEN Single(r, cms, fos, addons, failAt)
               ELSE FanOut(r, cms, fos, EmptyDict, <<>>, addons, failAt)
    IN  IF out.err = "" /\ NoMatch(fos, out.res)
        THEN Outcome(Raised, "KeyError", out.req, out.calls)
        ELSE out

NoStoreForContext_LogOnly(r) == Outcome(NoneRes, "", r, <<>>)

\* no store for the context and the stores are not the root literal: the
\* Signer is logged and the KeyError raised again
NoStoreForContext(r) == Outcome(Raised, "KeyError", r, <<>>)

\* fos is the fos argument; keys is list(cms.keys()), used when fos is None
create_signed_metadata_statement(ms, dctx, addons, r, context, fos, single, failAt, keys) ==
    LET ctx == ResolveContext(context, dctx)
    IN  IF ms = EmptyDict
        THEN Outcome(NoneRes, "", r, <<>>)
        ELSE IF ctx \notin DOMAIN ms
             THEN IF ms = ROOT_LITERAL
                  THEN SignAsSelf(r, addons, failAt)
                  ELSE NoStoreForContext(r)
             ELSE IF StoreIsEmpty(ms[ctx])
                  THEN SignAsSelf(r, addons, failAt)
                  ELSE Aggregate(r, ms[ctx],
                                 IF fos.none THEN keys ELSE fos.list,
                                 single, addons, failAt)

\* the documents FanOutStarts gives where the call gets to the fan-out loop
IterationStarts(ms, dctx, r, context, fos, single, failAt, keys) ==
    LET ctx == ResolveContext(context, dctx)
    IN  IF ctx \in DOMAIN ms /\ ~StoreIsEmpty(ms[ctx]) /\ ~single
        THEN FanOutStarts(r, ms[ctx], IF fos.none THEN keys ELSE fos.list,
                          0, failAt)
        ELSE <<>>

----------------------------------------------------------------------------
(* Signer.gather_metadata_statements *)

GatherLoop_FirstOnly(res, cms, fos) ==
    IF fos = <<>> \/ Head(fos) \notin DOMAIN cms
    THEN res
    ELSE MergeOne(res, Head(fos), cms[Head(fos)])

\* _res[attr][f] = val, or _res[attr] = Message() first
RECURSIVE GatherLoop(_, _, _)
GatherLoop(res, cms, fos) ==
    IF fos = <<>> THEN res
    ELSE IF Head(fos) \notin DOMAIN cms
         THEN GatherLoop(res, cms, Tail(fos))
         ELSE GatherLoop(MergeOne(res, Head(fos), cms[Head(fos)]), cms, Tail(fos))

gather_and_sign(ms, dctx, context, fos, keys) ==
    GatherOutcome(DictRes(EmptyDict), "", <<EmptyDict>>)

gather_metadata_statements(ms, dctx, context, fos, keys) ==
    LET ctx == ResolveContext(context, dctx)
    IN  IF ms = EmptyDict
        THEN GatherOutcome(DictRes(EmptyDict), "", <<>>)
        ELSE IF ctx \notin DOMAIN ms
             THEN IF ms = ROOT_LITERAL
                  THEN GatherOutcome(DictRes(EmptyDict), "", <<>>)
                  ELSE GatherOutcome(Raised, "ValueError", <<>>)
             ELSE IF ~StoreIsEmpty(ms[ctx])
                  THEN GatherOutcome(
                           DictRes(GatherLoop(EmptyDict, ms[ctx],
                                       IF fos.none THEN keys ELSE fos.list)),
                           "", <<>>)
                  ELSE GatherOutcome(DictRes(EmptyDict), "", <<>>)

----------------------------------------------------------------------------
(* WebSigningServiceClient *)

WebIss == "https://sigserv.example"
OtherIss == "https://other.example"
WebUrl == "https://sigserv.example/sign"
Location1 == "https://sigserv.example/ms/1"

\* self.keyjar: the verification keys held for each owner, a key written as
\* the name of the party that signs with it
KeyJar == [owner \in {WebIss, OtherIss} |-> {owner}]

\* response.text: a compact JWS (its payload, the key that signed it), or
\* some other text
JwsText(payload, signer) == [jws |-> TRUE, payload |-> payload, signed_by |-> signer]
PlainText == [jws |-> FALSE, payload |-> EmptyDict, signed_by |-> ""]

Payloads == {EmptyDict} \cup {[k \in {"iss"} |-> i] : i \in {WebIss, OtherIss}}

Texts == {PlainText} \cup
         {JwsText(p, k) : p \in Payloads, k \in {WebIss, OtherIss}}

StatusCodes == {199, 200, 299, 300, 404}

HeaderSets == {EmptyDict, [k \in {"Location"} |-> Location1]}

Responses ==
    [status_code : StatusCodes, text : Texts, headers : HeaderSets]

WebRaised(err, msg, steps) ==
    [res |-> Raised, err |-> err, msg |-> msg, steps |-> steps]

\* "{}: {}".format(response.status_code, response.text)
ErrorMessage(response) == <<response.status_code, ": ", response.text>>

StatusOK_NoUpper(response) == 200 <= response.status_code

\* 200 <= response.status_code < 300
StatusOK(response) == 200 <= response.status_code /\ response.status_code < 300

IssuerOK_Unchecked(body, self_iss) == TRUE

\* assert body['iss'] == self.iss
IssuerOK(body, self_iss) == body["iss"] = self_iss

VerifyCompact_Unchecked(text, keys) == TRUE

\* _jw.verify_compact(response.text, self.keyjar.get_verify_key(owner=self.iss))
VerifyCompact(text, keys) == text.signed_by \in keys

IssuerError_InsideTry == "JWSException"

\* the failed assert, outside the try block
IssuerError == "AssertionError"

\* the failed verification, raised or converted inside the try block
VerifyError == "JWSException"

\* the steps are the checks parse_response went through, in order
parse_response(response, self_iss, keyjar) ==
    IF StatusOK(response)
    THEN IF ~response.text.jws
         THEN WebRaised("AttributeError", <<>>, <<"factory">>)
         ELSE IF "iss" \notin DOMAIN response.text.payload
         THEN WebRaised("KeyError", <<>>, <<"factory", "issuer">>)
         ELSE IF ~IssuerOK(response.text.payload, self_iss)
         THEN WebRaised(IssuerError, <<>>, <<"factory", "issuer">>)
         ELSE IF ~VerifyCompact(response.text, keyjar[self_iss])
         THEN WebRaised(VerifyError, <<>>,
                        <<"factory", "issuer", "verify_compact">>)
         ELSE IF "Location" \notin DOMAIN response.headers
         THEN WebRaised("KeyError", <<>>,
                        <<"factory", "issuer", "verify_compact", "Location">>)
         ELSE [res |-> DictRes([sms |-> response.text,
                                loc |-> response.headers["Location"]]),
               err |-> "", msg |-> <<>>,
               steps |-> <<"factory", "issuer", "verify_compact", "Location">>]
    ELSE WebRaised("SigningServiceError", ErrorMessage(response), <<>>)

\* the number of verify_compact calls among the steps
RECURSIVE Count(_, _)
Count(steps, x) ==
    IF steps = <<>> THEN 0
    ELSE (IF Head(steps) = x THEN 1 ELSE 0) + Count(Tail(steps), x)

NoWebCall ==
    [op |-> "none", method |-> "", target |-> "",
     response |-> [status_code |-> 0, text |-> PlainText, headers |-> EmptyDict],
     res |-> NoneRes, err |-> "", msg |-> <<>>, steps |-> <<>>]

\* one remote operation: the request goes out, the service answers with some
\* response, parse_response decides what the caller gets
WebCall(op, method, target, response) ==
    LET out == parse_response(response, iss, KeyJar)
    IN  [op |-> op, method |-> method, target |-> target,
         response |-> response, res |-> out.res,
         err |-> out.err, msg |-> out.msg, steps |-> out.steps]

\* requests.post(self.url, json=req)
WebCreate ==
    /\ \E response \in Responses :
          /\ wlast' = WebCall("create", "POST", WebUrl, response)
          /\ verify_calls' = verify_calls + Count(wlast'.steps, "verify_compact")
          /\ verify_calls' <= MaxVerifyCalls
    /\ UNCHANGED iss
    /\ UNCHANGED signerVars

\* requests.put(location, json=req)
UpdateMetadataStatement ==
    /\ \E response \in Responses :
          /\ wlast' = WebCall("update_metadata_statement", "PUT", Location1, response)
          /\ verify_calls' = verify_calls + Count(wlast'.steps, "verify_compact")
          /\ verify_calls' <= MaxVerifyCalls
    /\ UNCHANGED iss
    /\ UNCHANGED signerVars

\* requests.get(location)
UpdateSignature ==
    /\ \E response \in Responses :
          /\ wlast' = WebCall("update_signature", "GET", Location1, response)
          /\ verify_calls' = verify_calls + Count(wlast'.steps, "verify_compact")
          /\ verify_calls' <= MaxVerifyCalls
    /\ UNCHANGED iss
    /\ UNCHANGED signerVars

----------------------------------------------------------------------------
(* The Signer and its callers *)

NoCall ==
    [op |-> "none", context |-> "", fos |-> NoFos, single |-> FALSE,
     fail_at |-> 0, keys |-> <<>>, req_before |-> EmptyDict,
     res |-> NoneRes, err |-> "", calls |-> <<>>, starts |-> <<>>, first |-> <<>>]

\* the store the resolved context selects, if any
StoreOf(context) ==
    IF ResolveContext(context, def_context) \in DOMAIN metadata_statements
    THEN metadata_statements[ResolveContext(context, def_context)]
    ELSE EmptyDict

KeysFor(context, fos) == IF fos.none THEN KeyOrders(StoreOf(context)) ELSE {<<>>}

Init ==
    /\ ms_dir \in MsDirs
    /\ constructed = (Signer_init(ms_dir).err = "")
    /\ metadata_statements = Signer_init(ms_dir).metadata_statements
    /\ def_context \in DefContexts
    /\ add_ons \in AddOnChoices
    /\ req \in InputDocs
    /\ last = NoCall
    /\ sign_calls = 0
    /\ iss = WebIss
    /\ wlast = NoWebCall
    /\ verify_calls = 0

\* the caller starts over with a fresh request document
NewRequest ==
    /\ constructed
    /\ last.op # "none"
    /\ req' \in InputDocs
    /\ last' = NoCall
    /\ sign_calls' = 0
    /\ UNCHANGED signerConf
    /\ UNCHANGED webVars

CreateSignedMetadataStatement ==
    /\ constructed
    /\ last.op = "none"
    /\ \E context \in ContextArgs, fos \in FosArgs, single \in BOOLEAN,
          failAt \in 0..MaxFos :
         \E keys \in KeysFor(context, fos) :
            LET out == create_signed_metadata_statement(
                           metadata_statements, def_context, add_ons, req,
                           context, fos, single, failAt, keys)
            IN  /\ failAt = 0 \/ out.err = "BackendError"
                /\ req' = out.req
                /\ last' = [op |-> "create", context |-> context, fos |-> fos,
                            single |-> single, fail_at |-> failAt, keys |-> keys,
                            req_before |-> req, res |-> out.res,
                            err |-> out.err, calls |-> out.calls,
                            starts |-> IterationStarts(
                                metadata_statements, def_context, req,
                                context, fos, single, failAt, keys),
                            first |-> <<>>]
                /\ sign_calls' = sign_calls + Len(out.calls)
    /\ UNCHANGED signerConf
    /\ UNCHANGED webVars

GatherMetadataStatements ==
    /\ constructed
    /\ last.op \in {"none", "backend_create"}
    /\ \E context \in ContextArgs, fos \in FosArgs :
         \E keys \in KeysFor(context, fos) :
            LET out == gather_metadata_statements(
                           metadata_statements, def_context, context, fos, keys)
            IN  /\ last' = [op |-> "gather", context |-> context, fos |-> fos,
                            single |-> FALSE, fail_at |-> 0, keys |-> keys,
                            req_before |-> req, res |-> out.res,
                            err |-> out.err, calls |-> out.calls,
                            starts |-> <<>>, first |-> <<>>]
                /\ sign_calls' = sign_calls + Len(out.calls)
    /\ UNCHANGED <<signerConf, req>>
    /\ UNCHANGED webVars

\* the caller repeats a single-mode call that returned, with the same
\* document object and the same arguments; first keeps what the backend was
\* handed the first time
CreateAgain ==
    /\ constructed
    /\ last.op = "create"
    /\ last.single
    /\ last.err = ""
    /\ last.res.kind = "sms"
    /\ LET out == create_signed_metadata_statement(
                       metadata_statements, def_context, add_ons, req,
                       last.context, last.fos, TRUE, 0, last.keys)
       IN  /\ req' = out.req
           /\ last' = [op |-> "create_again", context |-> last.context,
                       fos |-> last.fos, single |-> TRUE, fail_at |-> 0,
                       keys |-> last.keys, req_before |-> req,
                       res |-> out.res, err |-> out.err, calls |-> out.calls,
                       starts |-> <<>>, first |-> last.calls]
           /\ sign_calls' = sign_calls + Len(out.calls)
    /\ UNCHANGED signerConf
    /\ UNCHANGED webVars

\* res[key] = list(fs.keys()) for every store, each in the store's own order
Signer_items(ms, orders) ==
    [res |-> [key \in DOMAIN ms |-> orders[key]], metadata_statements |-> ms]

\* the orders list(fs.keys()) can give, store by store
ItemOrders(ms) ==
    {o \in [DOMAIN ms -> UNION {KeyOrders(ms[k]) : k \in DOMAIN ms}] :
        \A k \in DOMAIN ms : o[k] \in KeyOrders(ms[k])}

Items ==
    /\ constructed
    /\ last.op \in {"none", "create", "gather"}
    /\ \E orders \in ItemOrders(metadata_statements) :
         LET out == Signer_items(metadata_statements, orders)
         IN  /\ metadata_statements' = out.metadata_statements
             /\ last' = [op |-> "items", context |-> "", fos |-> NoFos,
                         single |-> FALSE, fail_at |-> 0, keys |-> <<>>,
                         req_before |-> req, res |-> DictRes(out.res),
                         err |-> "", calls |-> <<>>, starts |-> <<>>, first |-> <<>>]
    /\ UNCHANGED <<ms_dir, constructed, def_context, add_ons, req, sign_calls>>
    /\ UNCHANGED webVars

ListRes(l) == [kind |-> "list", list |-> l]

metadata_statement_fos_Setdefault(ms, dctx, context, keys) ==
    IF ResolveContext(context, dctx) \in DOMAIN ms
    THEN [res |-> keys, metadata_statements |-> ms]
    ELSE [res |-> <<>>,
          metadata_statements |-> Put(ms, ResolveContext(context, dctx), EmptyDict)]

\* keys is list(self.metadata_statements[context].keys()) where there is a store
metadata_statement_fos(ms, dctx, context, keys) ==
    IF ResolveContext(context, dctx) \in DOMAIN ms
    THEN [res |-> keys, metadata_statements |-> ms]
    ELSE [res |-> <<>>, metadata_statements |-> ms]

MetadataStatementFos ==
    /\ constructed
    /\ last.op \in {"none", "create", "gather"}
    /\ \E context \in ContextArgs :
         \E keys \in KeyOrders(StoreOf(context)) :
            LET out == metadata_statement_fos(
                           metadata_statements, def_context, context, keys)
            IN  /\ metadata_statements' = out.metadata_statements
                /\ last' = [op |-> "fos", context |-> context, fos |-> NoFos,
                            single |-> FALSE, fail_at |-> 0, keys |-> keys,
                            req_before |-> req, res |-> ListRes(out.res),
                            err |-> "", calls |-> <<>>, starts |-> <<>>, first |-> <<>>]
    /\ UNCHANGED <<ms_dir, constructed, def_context, add_ons, req, sign_calls>>
    /\ UNCHANGED webVars

\* the local backend called directly with the caller's document
SigningServiceCreate ==
    /\ constructed
    /\ last.op = "none"
    /\ last' = [op |-> "backend_create", context |-> "", fos |-> NoFos,
                single |-> FALSE, fail_at |-> 0, keys |-> <<>>,
                req_before |-> req,
                res |-> SmsRes(InternalSigningService_create(req, add_ons).sms),
                err |-> "", calls |-> <<req>>, starts |-> <<>>, first |-> <<>>]
    /\ sign_calls' = sign_calls + 1
    /\ UNCHANGED <<signerConf, req>>
    /\ UNCHANGED webVars

Next ==
    \/ NewRequest
    \/ CreateSignedMetadataStatement
    \/ GatherMetadataStatements
    \/ SigningServiceCreate
    \/ Items
    \/ MetadataStatementFos
    \/ CreateAgain

Spec == Init /\ [][Next]_vars

\* the remote backend on its own, under a Signer that stays as constructed
WebInit ==
    /\ ms_dir = NoneDir
    /\ constructed = TRUE
    /\ metadata_statements = MIN_SET
    /\ def_context = ""
    /\ add_ons = EmptyDict
    /\ req = Doc0
    /\ last = NoCall
    /\ sign_calls = 0
    /\ iss \in {WebIss, OtherIss}
    /\ wlast = NoWebCall
    /\ verify_calls = 0

WebNext ==
    \/ WebCreate
    \/ UpdateMetadataStatement
    \/ UpdateSignature

WebSpec == WebInit /\ [][WebNext]_vars

----------------------------------------------------------------------------
(* Properties of Signer.create_signed_metadata_statement *)

Range(q) == {q[i] : i \in DOMAIN q}

RESERVED == {"metadata_statements", "metadata_statement_uris"}

\* the store the last call resolved, and the FO list it worked on
LastStore == StoreOf(last.context)
LastFos == IF last.fos.none THEN last.keys ELSE last.fos.list
LastResolved == ResolveContext(last.context, def_context)

\* the FO ids of the list that have a store entry
Matched == Range(LastFos) \cap DOMAIN LastStore

\* the last call was a create whose backend did not fail
Created == last.op = "create" /\ last.fail_at = 0

\* ... on a context with a non-empty store
Aggregated(single) ==
    /\ Created
    /\ last.single = single
    /\ LastResolved \in DOMAIN metadata_statements
    /\ LastStore # EmptyDict

AllStoresEmpty ==
    \A c \in DOMAIN metadata_statements : metadata_statements[c] = EmptyDict

\* document d holds f |-> v under claim attr
HasEntry(d, attr, f, v) ==
    /\ attr \in DOMAIN d
    /\ f \in DOMAIN d[attr]
    /\ d[attr][f] = v

\* the FO ids document d holds under claim attr
Ids(d, attr) == IF attr \in DOMAIN d THEN DOMAIN d[attr] ELSE {}

\* C1: a Signer all of whose stores are empty (the default store set, stores
\* for some contexts only, or no store at all) hands the unmodified request
\* to the backend exactly once, returns {own issuer id: the signed result}
\* and leaves the request as it was, whatever context, fos and single are.
C1_RootSignsAsSelf ==
    (Created /\ AllStoresEmpty) =>
        /\ last.calls = <<last.req_before>>
        /\ last.res = DictRes(Put(EmptyDict, SignerIss,
                                  Pack(SignerIss, Metadata(last.req_before, add_ons))))
        /\ req = last.req_before

\* C2: in single mode on a non-empty store the backend is called exactly
\* once; in the document it gets, an FO of the list that has a store entry is
\* under metadata_statement_uris with its stored value exactly when that
\* value is a URI, and under metadata_statements with its stored value
\* exactly when it is an inline statement; an FO without a store entry is
\* skipped without error; the backend's result is returned as it is.
C2_SingleMergesOnce ==
    Aggregated(TRUE) =>
        /\ Len(last.calls) = 1
        /\ \A f \in Matched :
              /\ HasEntry(last.calls[1], "metadata_statement_uris", f, LastStore[f])
                    <=> LastStore[f] \in URIs
              /\ HasEntry(last.calls[1], "metadata_statements", f, LastStore[f])
                    <=> LastStore[f] \in InlineStatements
        /\ \A f \in Range(LastFos) \ Matched : \A attr \in RESERVED :
              (f \in Ids(last.calls[1], attr)) <=> (f \in Ids(last.req_before, attr))
        /\ last.err = ""
        /\ last.res = SmsRes(Pack(SignerIss, Metadata(last.calls[1], add_ons)))

\* a single-mode call over a URI entry, an inline entry and a missing FO
C2_Witness ==
    /\ Aggregated(TRUE)
    /\ \E f, g \in Matched :
          LastStore[f] \in URIs /\ LastStore[g] \in InlineStatements
    /\ Range(LastFos) \ Matched # {}
    /\ last.res.kind = "sms"

\* the FOs of the list that have a store entry, in list order: the FO of
\* each backend call of a fan-out
RECURSIVE MatchedSeq(_, _)
MatchedSeq(fos, cms) ==
    IF fos = <<>> THEN <<>>
    ELSE IF Head(fos) \in DOMAIN cms
         THEN <<Head(fos)>> \o MatchedSeq(Tail(fos), cms)
         ELSE MatchedSeq(Tail(fos), cms)

ClaimOf(v) ==
    IF v \in URIs THEN "metadata_statement_uris" ELSE "metadata_statements"
OtherClaim(attr) ==
    IF attr = "metadata_statements" THEN "metadata_statement_uris"
    ELSE "metadata_statements"

\* what C3 and its amended form share: one backend call per FO of the list
\* that has a store entry, each on a document that holds the FO's entry
\* under the claim its value selects, and a mapping keyed by exactly those
\* FOs when the call returns
FanOutShape ==
    LET fs == MatchedSeq(LastFos, LastStore)
    IN  /\ Len(last.calls) = Len(fs)
        /\ \A i \in 1..Len(fs) :
              HasEntry(last.calls[i], ClaimOf(LastStore[fs[i]]), fs[i],
                       LastStore[fs[i]])
        /\ last.err = "" =>
              /\ last.res.kind = "dict"
              /\ DOMAIN last.res.items = Matched
        /\ last.err # "" => Matched = {}

\* C3 (as stated): in fan-out mode on a non-empty store the result's keys
\* are exactly the FOs of the list that have a store entry, the backend is
\* called once per such FO, and the document it gets for FO f holds f's
\* entry and no entry of any other FO of the list under either reserved
\* claim.
C3_FanOutNoOtherFo ==
    Aggregated(FALSE) =>
        /\ FanOutShape
        /\ \A i \in 1..Len(last.calls) : \A attr \in RESERVED :
              Ids(last.calls[i], attr) \cap Range(LastFos)
                 \subseteq {MatchedSeq(LastFos, LastStore)[i]}

\* C3 (amended): as above, but the document for FO f holds no other FO of
\* the list under the claim that holds f's entry, and under the other
\* reserved claim only entries the input document already held there.
C3_FanOutNoSibling ==
    Aggregated(FALSE) =>
        /\ FanOutShape
        /\ \A i \in 1..Len(last.calls) :
              LET f == MatchedSeq(LastFos, LastStore)[i]
                  attr == ClaimOf(LastStore[f])
                  d == last.calls[i]
              IN  /\ Ids(d, attr) \cap Range(LastFos) \subseteq {f}
                  /\ \A g \in Ids(d, OtherClaim(attr)) :
                        HasEntry(last.req_before, OtherClaim(attr), g,
                                 d[OtherClaim(attr)][g])

\* a fan-out over a URI entry and an inline entry that returned both
C3_Witness ==
    /\ Aggregated(FALSE)
    /\ last.err = ""
    /\ \E f, g \in DOMAIN last.res.items :
          LastStore[f] \in URIs /\ LastStore[g] \in InlineStatements
    /\ Len(last.calls) = 2

\* C4: on a non-empty store, a non-empty fos list none of whose ids has a
\* store entry makes the call fail with the "no metadata statements
\* matched" error and return nothing, in single mode and in fan-out mode.
C4_NoMatchRaises ==
    (/\ Created
     /\ LastResolved \in DOMAIN metadata_statements
     /\ LastStore # EmptyDict
     /\ LastFos # <<>>
     /\ Matched = {})
    => (last.err = "KeyError" /\ last.res = Raised)

\* C5: gather_metadata_statements never calls the signing backend: the
\* backend's call count is the same after a gather as before it, whether
\* the gather returns or raises.
C5_GatherNeverSigns ==
    [][last'.op = "gather" => sign_calls' = sign_calls]_vars

\* a gather that returned entries, after the backend had been used
C5_Witness ==
    /\ last.op = "gather"
    /\ sign_calls > 0
    /\ last.err = ""
    /\ DOMAIN last.res.items # {}

\* C9 (as stated): the local backend signs a payload in which every claim
\* of the caller's document keeps the caller's value and an add-on claim is
\* added only when the document lacks its key.
C9_AddOnsNeverOverride ==
    last.op = "backend_create" =>
        LET payload == last.res.sms.payload
        IN  /\ DOMAIN payload = (DOMAIN last.req_before) \cup (DOMAIN add_ons)
            /\ \A k \in DOMAIN last.req_before : payload[k] = last.req_before[k]
            /\ \A k \in (DOMAIN add_ons) \ (DOMAIN last.req_before) :
                  payload[k] = add_ons[k]

\* C10 (as stated): the reserved claims are merged additively: an entry the
\* request already holds under metadata_statements or
\* metadata_statement_uris is in every document handed to the backend, and
\* is still in the request when the call returns.
C10_ReservedClaimsKept ==
    (Created /\ last.err = "") =>
        \A attr \in RESERVED : \A f \in Ids(last.req_before, attr) :
            /\ \A i \in 1..Len(last.calls) : f \in Ids(last.calls[i], attr)
            /\ f \in Ids(req, attr)

----------------------------------------------------------------------------
(* Properties of WebSigningServiceClient *)

Called == wlast.op # "none"

In2xx(status) == status >= 200 /\ status <= 299

\* the response's token names an issuer other than the configured one
IssuerMismatch ==
    /\ Called
    /\ In2xx(wlast.response.status_code)
    /\ wlast.response.text.jws
    /\ "iss" \in DOMAIN wlast.response.text.payload
    /\ wlast.response.text.payload["iss"] # iss

\* C6: a response with status in [200,300) whose issuer claim differs from
\* the configured issuer is rejected with an error and no result, and its
\* signature is never verified: wherever the signature is verified the
\* issuer check came first, and a mismatch leaves the number of
\* verifications as it was.
C6_IssuerBeforeVerify ==
    /\ [](IssuerMismatch =>
            /\ wlast.err # ""
            /\ wlast.res = Raised
            /\ "verify_compact" \notin Range(wlast.steps))
    /\ [](\A i \in DOMAIN wlast.steps :
            wlast.steps[i] = "verify_compact" =>
                \E j \in 1..(i - 1) : wlast.steps[j] = "issuer")
    /\ [][IssuerMismatch' => verify_calls' = verify_calls]_vars

\* a well-signed token of another issuer arrived with status 200, after a
\* verification had already been counted
C6_Witness ==
    /\ IssuerMismatch
    /\ wlast.response.status_code = 200
    /\ wlast.response.text.signed_by = wlast.response.text.payload["iss"]
    /\ wlast.err = "AssertionError"
    /\ verify_calls > 0

\* C7: create, update_metadata_statement and update_signature return a
\* result only for a response with status in [200,300) whose token names
\* the configured issuer and is signed with that issuer's key; the result's
\* statement is the response body and its location the Location header.
C7_ResultOnlyIfVerified ==
    (Called /\ wlast.res # Raised) =>
        /\ wlast.op \in {"create", "update_metadata_statement", "update_signature"}
        /\ wlast.err = ""
        /\ In2xx(wlast.response.status_code)
        /\ wlast.response.text.jws
        /\ "iss" \in DOMAIN wlast.response.text.payload
        /\ wlast.response.text.payload["iss"] = iss
        /\ wlast.response.text.signed_by = iss
        /\ "Location" \in DOMAIN wlast.response.headers
        /\ wlast.res = DictRes([sms |-> wlast.response.text,
                                loc |-> wlast.response.headers["Location"]])

\* update_metadata_statement returned a result
C7_Witness ==
    /\ wlast.op = "update_metadata_statement"
    /\ wlast.res.kind = "dict"
    /\ wlast.res.items.loc = Location1

\* C8: a response whose status is outside [200,300) fails with a
\* SigningServiceError that carries the status code and the response body,
\* and neither the issuer check nor the verification is made for it.
C8_BadStatusRaises ==
    (Called /\ ~In2xx(wlast.response.status_code)) =>
        /\ wlast.err = "SigningServiceError"
        /\ wlast.res = Raised
        /\ Len(wlast.msg) = 3
        /\ wlast.msg[1] = wlast.response.status_code
        /\ wlast.msg[3] = wlast.response.text
        /\ wlast.steps = <<>>

\* status 404 came with a well-formed, well-signed token of the issuer
C8_Witness ==
    /\ Called
    /\ wlast.response.status_code = 404
    /\ wlast.response.text.jws
    /\ wlast.response.text.signed_by = iss
    /\ wlast.err = "SigningServiceError"

----------------------------------------------------------------------------
(* Further properties of the Signer *)

\* the Signer has a superior: some store of it holds a statement
NonRoot ==
    \E c \in DOMAIN metadata_statements : metadata_statements[c] # EmptyDict

\* C11: on a non-root Signer, create_signed_metadata_statement and
\* gather_metadata_statements called for a context the Signer has no store
\* for raise an error: nothing is returned, the backend is not called and
\* the caller's document is as it was.
C11_NoStoreRaises ==
    (/\ last.op \in {"create", "gather"}
     /\ NonRoot
     /\ LastResolved \notin DOMAIN metadata_statements)
    => /\ last.err \in {"KeyError", "ValueError"}
       /\ last.res = Raised
       /\ last.calls = <<>>
       /\ (last.op = "create" => sign_calls = 0)
       /\ req = last.req_before

\* a create for a context without a store, a fos list given, single mode
C11_Witness ==
    /\ last.op = "create"
    /\ NonRoot
    /\ last.context # ""
    /\ LastResolved \notin DOMAIN metadata_statements
    /\ last.single
    /\ last.fos.list # <<>>
    /\ last.err = "KeyError"

\* C12: no call on a Signer changes what its construction set: the stores
\* of every context, the default context and the backend's configuration
\* are after every step what they were before it.
C12_SignerImmutable ==
    [][UNCHANGED signerConf]_vars

\* metadata_statement_fos asked, after a create that wrote to the caller's
\* document, for a context without a store: the empty list, and the stores
\* still as constructed
C12_Witness ==
    /\ last.op = "fos"
    /\ NonRoot
    /\ LastResolved \notin DOMAIN metadata_statements
    /\ last.res = ListRes(<<>>)
    /\ last.req_before \notin InputDocs
    /\ metadata_statements = Signer_init(ms_dir).metadata_statements

\* the keys of a configuration: of the dict, or the items of the directory
ConfigKeys(dir) == (DOMAIN dir.dict) \cup dir.files

\* C13: a constructed Signer has stores under recognized contexts only, and
\* a construction from a dict or a directory with a key outside CONTEXTS
\* raises ValueError: no Signer exists, so nothing is ever called on it.
C13_OnlyRecognizedContexts ==
    /\ constructed => DOMAIN metadata_statements \subseteq CONTEXTS
    /\ (~ms_dir.none /\ ~(ConfigKeys(ms_dir) \subseteq CONTEXTS))
       => /\ ~constructed
          /\ Signer_init(ms_dir).err = "ValueError"
          /\ metadata_statements = EmptyDict
          /\ last = NoCall

\* the construction from {'register': ...} failed
C13_Witness ==
    /\ "register" \in DOMAIN ms_dir.dict
    /\ ~constructed

\* C14 (as stated): in fan-out mode the caller's document is, at the start
\* of every iteration of the loop over the FOs and when the call returns a
\* result, the document the call was entered with.
C14_FanOutRestoresDoc ==
    (/\ last.op = "create"
     /\ ~last.single
     /\ LastResolved \in DOMAIN metadata_statements
     /\ LastStore # EmptyDict)
    => /\ \A i \in DOMAIN last.starts : last.starts[i] = last.req_before
       /\ (last.err = "" => req = last.req_before)

\* C15 (as stated): when the backend raises during a create, in single mode
\* or in any iteration of the fan-out, the call returns nothing and the
\* caller's document is the document the call was entered with.
C15_NoPartialStateOnFailure ==
    (last.op = "create" /\ last.err = "BackendError")
    => /\ last.res = Raised
       /\ req = last.req_before

\* C16: a create on a context whose store is there and empty signs as self,
\* whatever the other stores hold, the fos list and the mode are: one
\* backend call with the caller's document as it is, the result
\* {own issuer id: signed statement}, the document untouched, no error.
C16_EmptyStoreSignsAsSelf ==
    (/\ Created
     /\ LastResolved \in DOMAIN metadata_statements
     /\ LastStore = EmptyDict)
    => /\ last.err = ""
       /\ last.calls = <<last.req_before>>
       /\ sign_calls = 1
       /\ last.res = DictRes([f \in {SignerIss} |->
                        Pack(SignerIss, Metadata(last.req_before, add_ons))])
       /\ req = last.req_before

\* an empty store next to a non-empty one, asked with a list of FOs
C16_Witness ==
    /\ Created
    /\ NonRoot
    /\ LastResolved \in DOMAIN metadata_statements
    /\ LastStore = EmptyDict
    /\ ~last.fos.none
    /\ Len(last.fos.list) = 2
    /\ last.res.kind = "dict"

\* the reserved claims of a document, with their values
ReservedOf(d) == [attr \in RESERVED \cap DOMAIN d |-> d[attr]]

\* the documents without a reserved claim a caller can hand in
PlainDocs == {d \in InputDocs : RESERVED \cap DOMAIN d = {}}

\* what single-mode creation does, with a backend that signs, to document d
\* for the arguments of the last call
SingleModeOn(d) ==
    create_signed_metadata_statement(metadata_statements, def_context, add_ons,
                                     d, last.context, last.fos, TRUE, 0,
                                     last.keys)

\* C17: where neither call fails, gather_metadata_statements returns exactly
\* the reserved claims a single-mode create with the same context and fos
\* leaves in a document that had none, and that is the empty result when
\* every store of the Signer is empty or the store of the context is.
C17_GatherIsSingleModeMerge ==
    (last.op = "gather" /\ last.err = "")
    => /\ last.res.kind = "dict"
       /\ \A d \in PlainDocs :
              SingleModeOn(d).err = ""
              => /\ last.res.items = ReservedOf(SingleModeOn(d).req)
                 /\ \A k \in DOMAIN d : SingleModeOn(d).req[k] = d[k]
       /\ (AllStoresEmpty \/ LastStore = EmptyDict)
              => last.res.items = EmptyDict

\* a gather that returned both reserved claims
C17_Witness ==
    /\ last.op = "gather"
    /\ last.err = ""
    /\ DOMAIN last.res.items = RESERVED
    /\ SingleModeOn(Doc0).err = ""

\* C19: a create with fos given as the empty list, on a context with a
\* non-empty store, does not raise: in fan-out mode it returns the empty
\* mapping without a backend call, in single mode it has the backend sign
\* the caller's document as it is, once, and returns that statement; the
\* document is untouched.
C19_EmptyFosNeverNoMatch ==
    (/\ Created
     /\ LastResolved \in DOMAIN metadata_statements
     /\ LastStore # EmptyDict
     /\ ~last.fos.none
     /\ last.fos.list = <<>>)
    => /\ last.err = ""
       /\ req = last.req_before
       /\ sign_calls = Len(last.calls)
       /\ IF last.single
          THEN /\ last.calls = <<last.req_before>>
               /\ last.res = SmsRes(Pack(SignerIss,
                                         Metadata(last.req_before, add_ons)))
          ELSE /\ last.calls = <<>>
               /\ last.res = DictRes(EmptyDict)

\* the fan-out call with the empty list, on a document with a reserved claim
C19_Witness ==
    /\ Created
    /\ LastStore # EmptyDict
    /\ ~last.fos.none
    /\ last.fos.list = <<>>
    /\ ~last.single
    /\ last.res = DictRes(EmptyDict)
    /\ RESERVED \cap DOMAIN req # {}

\* C20: when a single-mode create on a context with a non-empty store
\* returns, the caller's document is the document the backend was handed,
\* merge included; and the same call repeated on that document hands the
\* backend the same document again and leaves the caller's document as it
\* is.
C20_SingleLeavesMerge ==
    /\ (Aggregated(TRUE) /\ last.err = "")
       => (Len(last.calls) = 1 /\ req = last.calls[1])
    /\ (last.op = "create_again" /\ LastStore # EmptyDict)
       => /\ last.err = ""
          /\ last.calls = last.first
          /\ last.calls = <<last.req_before>>
          /\ req = last.req_before
          /\ sign_calls = 2

\* the repeated call, on a document that got both reserved claims from the
\* first call
C20_Witness ==
    /\ last.op = "create_again"
    /\ LastStore # EmptyDict
    /\ last.calls = last.first
    /\ DOMAIN ReservedOf(req) = RESERVED
    /\ last.first[1] # Doc0

----------------------------------------------------------------------------
(* Further properties of WebSigningServiceClient *)

\* the response's token names the configured issuer and is signed with
\* another key
SignatureFailure ==
    /\ Called
    /\ In2xx(wlast.response.status_code)
    /\ wlast.response.text.jws
    /\ "iss" \in DOMAIN wlast.response.text.payload
    /\ wlast.response.text.payload["iss"] = iss
    /\ wlast.response.text.signed_by # iss

\* C18: for a response with status in [200,300), a token of the configured
\* issuer whose signature does not verify and a token of another issuer
\* are both rejected with an error and no result, and the two errors are of
\* different kinds: a call of the one case followed by a call of the other
\* never raises the same error.
C18_DistinctErrorKinds ==
    /\ []((IssuerMismatch \/ SignatureFailure) =>
            (wlast.err # "" /\ wlast.res = Raised))
    /\ [][((IssuerMismatch /\ SignatureFailure') \/
           (SignatureFailure /\ IssuerMismatch')) => wlast'.err # wlast.err]_vars

\* a token of the configured issuer, signed with another key, came with
\* status 299 after an earlier verification
C18_Witness ==
    /\ SignatureFailure
    /\ wlast.response.status_code = 299
    /\ wlast.err = "JWSException"
    /\ wlast.steps = <<"factory", "issuer", "verify_compact">>
    /\ verify_calls = 2

====
